---- MODULE Spec2Model ----
(***************************************************************************)
(* A model of slate's replication engine: the Store (src/src/db.rs), the   *)
(* Replicator (src/src/control_plane.rs), the peer HTTP surface            *)
(* (src/src/http_server.rs) and the local command surface                  *)
(* (src/src/daemon.rs).                                                    *)
(***************************************************************************)
EXTENDS Integers, Sequences, FiniteSets, TLC

\* ------------------------------------------------------------------ bounds
\* the hosts that run the service, and peers of the mesh that stand for the
\* rest of it (their requests and answers are drawn from small sets)
Hosts == {"h1", "h2"}
EnvHosts == {"p1", "p2"}
Peers == Hosts \cup EnvHosts
\* ULIDs are modelled as numbers: millisecond part k \div TailN, random tail
\* k % TailN.  The string order of ULIDs is the numeric order of these.
MaxMs == 2
TailN == 2
Keys == 0 .. ((MaxMs + 1) * TailN - 1)
\* local copy commands accepted in one run
MaxCopies == 1
\* times a host leaves the mesh in one run
MaxOutages == 1
\* Store commands that fail in one run of the Replicator
MaxDbErrors == 1
\* largest self counter the Store specification lets local writes reach
MaxSelf == 2
\* clipboard rows the Store specification lets one database hold
MaxRows == 2
\* POST /gossip requests foreign peers get accepted in one run
MaxPosts == 2
\* largest counter and ttl a peer of the mesh sends
MaxCounter == 1
MaxTtl == 1
MaxPeers == 6
MaxAePeers == 2

\* ------------------------------------------------------------------ data
\* Option<T>: None is the empty set, Some(v) the singleton
None == {}
Some(v) == {v}
IsSome(o) == o # {}
Unwrap(o) == CHOOSE v \in o : TRUE

\* ClipboardEntry (db.rs:46-50)
Text(t) == [tag |-> "Text", text |-> t]
Image(w, h, b) == [tag |-> "Image", width |-> w, height |-> h, bytes |-> b]
TextA == Text("a")
ImageA == Image(1, 1, <<0, 0, 0, 0>>)
Entries == {TextA, ImageA}

\* a row of table clipboard (db.rs:62-69)
TextRow(k, t) ==
  [key |-> k, text_data |-> Some(t), width |-> None, height |-> None,
   image_content |-> None]
ImageRow(k, i) ==
  [key |-> k, text_data |-> None, width |-> Some(i.width),
   height |-> Some(i.height), image_content |-> Some(i.bytes)]

\* the database right after Database::new on an empty file (db.rs:53-80)
EmptyDb == [clipboard |-> {}, clock |-> {}]

HasKey(d, k) == \E r \in d.clipboard : r.key = k
KeysOf(d) == {r.key : r \in d.clipboard}

\* ------------------------------------------------------------------ Store
\* UPDATE clock SET time = time + 1 WHERE self = TRUE
inc_self_counter(d) ==
  [d EXCEPT !.clock =
     {IF r.self THEN [r EXCEPT !.time = @ + 1] ELSE r : r \in d.clock}]

\* the insert, were it ON CONFLICT(key) DO UPDATE SET time = 0
insert_self_reset(d, host_name) ==
  [d EXCEPT !.clock =
     {r \in @ : r.key # host_name}
       \cup {[key |-> host_name, self |-> TRUE, time |-> 0]}]

\* INSERT INTO clock (key, self, time) VALUES (?1, TRUE, 0)
\* ON CONFLICT(key) DO NOTHING
insert_self(d, host_name) ==
  IF \E r \in d.clock : r.key = host_name
  THEN d
  ELSE [d EXCEPT !.clock =
          @ \cup {[key |-> host_name, self |-> TRUE, time |-> 0]}]

\* SELECT key, time FROM clock, collected into a HashMap
load_clock(d) ==
  [k \in {r.key : r \in d.clock} |->
     (CHOOSE r \in d.clock : r.key = k).time]

\* the upsert without its WHERE self = FALSE
sync_clock_any_row(d, clock_map) ==
  IF DOMAIN clock_map = {}
  THEN d
  ELSE [d EXCEPT !.clock =
          {IF r.key \in DOMAIN clock_map
           THEN [r EXCEPT !.time = clock_map[r.key]]
           ELSE r : r \in d.clock}
          \cup {[key |-> k, self |-> FALSE, time |-> clock_map[k]] :
                  k \in {x \in DOMAIN clock_map :
                           ~\E r \in d.clock : r.key = x}}]

\* INSERT ... VALUES (k, FALSE, v) for each (k, v) of clock_map
\* ON CONFLICT(key) DO UPDATE SET time = excluded.time WHERE self = FALSE
sync_clock(d, clock_map) ==
  IF DOMAIN clock_map = {}
  THEN d
  ELSE [d EXCEPT !.clock =
          {IF r.key \in DOMAIN clock_map /\ ~r.self
           THEN [r EXCEPT !.time = clock_map[r.key]]
           ELSE r : r \in d.clock}
          \cup {[key |-> k, self |-> FALSE, time |-> clock_map[k]] :
                  k \in {x \in DOMAIN clock_map :
                           ~\E r \in d.clock : r.key = x}}]

\* the insert, were it INSERT OR REPLACE
insert_or_replace(d, row, io_ok) ==
  IF ~io_ok
  THEN [ok |-> FALSE, db |-> d]
  ELSE [ok |-> TRUE,
        db |-> [d EXCEPT !.clipboard =
                  {r \in @ : r.key # row.key} \cup {row}]]

\* statement.execute of an INSERT INTO clipboard: the PRIMARY KEY constraint
\* or the storage (io_ok = FALSE) makes it fail, and then no row is added
insert_row(d, row, io_ok) ==
  IF HasKey(d, row.key) \/ ~io_ok
  THEN [ok |-> FALSE, db |-> d]
  ELSE [ok |-> TRUE, db |-> [d EXCEPT !.clipboard = @ \cup {row}]]

\* Database::save_text: the counter update runs, and commits, before the
\* insert is attempted
save_text(d, text, timestamp, local, io_ok) ==
  insert_row(IF local THEN inc_self_counter(d) ELSE d,
             TextRow(timestamp, text), io_ok)

\* Database::save_image
save_image(d, image, timestamp, local, io_ok) ==
  insert_row(IF local THEN inc_self_counter(d) ELSE d,
             ImageRow(timestamp, image), io_ok)

\* Database::listen, arms CopyImage and CopyText: the entry goes to
\* save_image or save_text with the flag of the command (db.rs:362-387)
CopyEntry(d, data, timestamp, local, io_ok) ==
  IF data.tag = "Text"
  THEN save_text(d, data.text, timestamp, local, io_ok)
  ELSE save_image(d, [width |-> data.width, height |-> data.height,
                      bytes |-> data.bytes], timestamp, local, io_ok)

\* a row read back as a ClipboardEntry (db.rs:260-270, 294-305)
RowEntry(r) ==
  IF IsSome(r.text_data)
  THEN Text(Unwrap(r.text_data))
  ELSE Image(Unwrap(r.width), Unwrap(r.height), Unwrap(r.image_content))

\* the rows of the table in ascending order of key
RECURSIVE RowsAsc(_)
RowsAsc(rows) ==
  IF rows = {}
  THEN <<>>
  ELSE LET low == CHOOSE r \in rows : \A q \in rows : r.key <= q.key
       IN <<low>> \o RowsAsc(rows \ {low})

\* the rows of the table in ORDER BY key DESC
RECURSIVE RowsDesc(_)
RowsDesc(rows) ==
  IF rows = {}
  THEN <<>>
  ELSE LET top == CHOOSE r \in rows : \A q \in rows : q.key <= r.key
       IN <<top>> \o RowsDesc(rows \ {top})

\* Database::read_clipboard: LIMIT 1 OFFSET ?
read_clipboard(d, offset) ==
  LET s == RowsDesc(d.clipboard)
  IN IF offset + 1 <= Len(s)
     THEN [ok |-> TRUE, entry |-> Some(RowEntry(s[offset + 1]))]
     ELSE [ok |-> FALSE, entry |-> None]

\* Database::listen, DBCommand::Paste: the entry read at the offset is set on
\* the OS clipboard, which may fail; a failed read sets nothing
\* (db.rs:388-424).  `set` is what the OS clipboard is set to, None when it
\* is left alone.
Paste(d, offset, set_ok) ==
  LET result == read_clipboard(d, offset)
  IN [ok |-> result.ok /\ set_ok,
      read |-> result.entry,
      set |-> IF result.ok /\ set_ok THEN result.entry ELSE None]

\* Database::get_recent: LIMIT ?, as (entry, key) pairs
get_recent(d, limit) ==
  LET s == RowsDesc(d.clipboard)
      n == IF Len(s) < limit THEN Len(s) ELSE limit
  IN [i \in 1 .. n |-> <<RowEntry(s[i]), s[i].key>>]

\* ------------------------------------------------------------ Replicator
TTL == 1
MAX_PER_ROUND == 5
\* length asked of the Store by GET /recent_clipboard
RECENT_LENGTH == 100

\* a Clock on the wire is a function from host ids to counters
EmptyClock == <<>>

is_outdated_missing_zero(clock, incoming) ==
  \E key \in DOMAIN incoming :
    incoming[key] > (IF key \in DOMAIN clock THEN clock[key] ELSE 0)

is_outdated(clock, incoming) ==
  \E key \in DOMAIN incoming :
    IF key \in DOMAIN clock THEN incoming[key] > clock[key] ELSE TRUE

\* the loop of Node::update_values over incoming_clock (lines 221-233)
merge_clock(updating_clock, incoming_clock) ==
  [key \in DOMAIN updating_clock \cup DOMAIN incoming_clock |->
     IF key \in DOMAIN incoming_clock
     THEN IF key \in DOMAIN updating_clock
          THEN IF updating_clock[key] > incoming_clock[key]
               THEN updating_clock[key]
               ELSE incoming_clock[key]
          ELSE incoming_clock[key]
     ELSE updating_clock[key]]

\* Ulid::from_string: the strings that parse are the keys
ValidKey(k) == k \in Keys

\* DBCommand::CopyData {data, timestamp, local}: the variant is built by the
\* Replicator and Database::listen has no arm for it; it is served as the
\* arm of the entry's kind
CopyData(d, data, timestamp, local, io_ok) ==
  CopyEntry(d, data, timestamp, local, io_ok)

\* the loop, were it to stop at the first write the Store answers with an
\* error
RECURSIVE write_updates_or_panic(_, _, _)
write_updates_or_panic(d, incoming_updates, i) ==
  IF i > Len(incoming_updates)
  THEN [panic |-> FALSE, db |-> d]
  ELSE LET r == CopyData(d, incoming_updates[i][1], incoming_updates[i][2],
                         FALSE, TRUE)
       IN IF ~ValidKey(incoming_updates[i][2]) \/ ~r.ok
          THEN [panic |-> TRUE, db |-> d]
          ELSE write_updates_or_panic(r.db, incoming_updates, i + 1)

\* the loop, were it to write with local = true
RECURSIVE write_updates_local(_, _, _)
write_updates_local(d, incoming_updates, i) ==
  IF i > Len(incoming_updates)
  THEN [panic |-> FALSE, db |-> d]
  ELSE IF ~ValidKey(incoming_updates[i][2])
       THEN [panic |-> TRUE, db |-> d]
       ELSE write_updates_local(
              CopyData(d, incoming_updates[i][1], incoming_updates[i][2],
                       TRUE, TRUE).db,
              incoming_updates, i + 1)

\* the for loop of Node::update_values over incoming_updates (lines 189-217):
\* each pair is written with local = false and the reply is not inspected;
\* a key that does not parse panics after the pairs before it were written
RECURSIVE write_updates(_, _, _)
write_updates(d, incoming_updates, i) ==
  IF i > Len(incoming_updates)
  THEN [panic |-> FALSE, db |-> d]
  ELSE IF ~ValidKey(incoming_updates[i][2])
       THEN [panic |-> TRUE, db |-> d]
       ELSE write_updates(
              CopyData(d, incoming_updates[i][1], incoming_updates[i][2],
                       FALSE, TRUE).db,
              incoming_updates, i + 1)

\* the same loop with a Store that answers some of the writes with an error:
\* io_ok[i] tells whether the insert of pair i goes through; the reply is
\* awaited and dropped (`let _ = y.await.expect(..)`, line 216)
RECURSIVE write_updates_io(_, _, _, _)
write_updates_io(d, incoming_updates, i, io_ok) ==
  IF i > Len(incoming_updates)
  THEN [panic |-> FALSE, db |-> d]
  ELSE IF ~ValidKey(incoming_updates[i][2])
       THEN [panic |-> TRUE, db |-> d]
       ELSE write_updates_io(
              CopyData(d, incoming_updates[i][1], incoming_updates[i][2],
                       FALSE, io_ok[i]).db,
              incoming_updates, i + 1, io_ok)

next_any(nbrs, i) == i

\* index of the first neighbour at or after i whose Online flag is set
RECURSIVE next_online(_, _)
next_online(nbrs, i) ==
  IF i > Len(nbrs) \/ nbrs[i].Online THEN i ELSE next_online(nbrs, i + 1)

\* ------------------------------------------------------------------ state
NoReq == [st |-> "none"]
NoMsg == [cmd |-> "none"]
NoCmd == [st |-> "none"]

VARIABLES
  db,      \* per host: the SQLite database (tables clipboard and clock)
  up,      \* per host: reachable on the mesh (PeerInfo.Online as peers see it)
  rep,     \* per host: the Replicator task (Node::listen)
  cq,      \* per host: the mpsc queue of ControlMessages
  http,    \* per host: the outbound HTTP request of its Replicator
  trig,    \* per host: the trigger_anti_entropy task
  daemon,  \* per host: the handle_client task of a copy command
  copies,  \* per host: copy commands the Store has answered with success
  dberr,   \* Store commands of the Replicator that have failed so far
  outages, \* times a host has left the mesh so far
  posts,   \* POST /gossip answered 200 so far: how many, and the latest payload
  last     \* the latest command the Store served for a caller, and its reply

vars ==
  <<db, up, rep, cq, http, trig, daemon, copies, dberr, outages, posts, last>>

\* guard: the task holds a MutexGuard of Node.neighbors
Idle == [pc |-> "idle", msg |-> NoMsg, nbrs |-> <<>>, i |-> 0, sent |-> 0,
         clock |-> EmptyClock, ttl |-> 0, guard |-> FALSE]

Init ==
  /\ db = [h \in Hosts |-> EmptyDb]
  /\ up = [h \in Peers |-> TRUE]
  /\ rep = [h \in Hosts |-> [Idle EXCEPT !.pc = "boot"]]
  /\ cq = [h \in Hosts |-> <<>>]
  /\ http = [h \in Peers |-> NoReq]
  /\ trig = [h \in Hosts |-> "sleep"]
  /\ daemon = [h \in Hosts |-> NoCmd]
  /\ copies = [h \in Hosts |-> 0]
  /\ dberr = 0
  /\ outages = 0
  /\ posts = [n |-> 0]
  /\ last = [op |-> "none"]

\* Ulid::new(): a key no host holds.  Either the clock has moved on and the
\* key sorts above every key minted so far, or it falls in the millisecond of
\* the latest key with a smaller random tail and sorts just below it.
AllKeys == UNION {KeysOf(db[h]) : h \in Hosts}
MaxKey ==
  IF AllKeys = {} THEN -1 ELSE CHOOSE k \in AllKeys : \A q \in AllKeys : q <= k
Mintable ==
  {k \in Keys \ AllKeys :
     \/ k = ((MaxKey \div TailN) + 1) * TailN + (TailN - 1)
     \/ /\ MaxKey >= 0
        /\ k \div TailN = MaxKey \div TailN
        /\ k < MaxKey}

\* the peer list after reload_neighbors: the hosts of S, in the order
\* HashMap::into_values happens to give, each with its Online flag
Perms(S) ==
  {s \in [1 .. Cardinality(S) -> S] : \A x \in S : \E i \in DOMAIN s : s[i] = x}
PeerLists(S) ==
  {[i \in DOMAIN s |-> [HostName |-> s[i], Online |-> up[s[i]]]] :
     s \in Perms(S)}

Msg(cmd, from, data, ttl, clock) ==
  [cmd |-> cmd, from |-> from, data |-> data, ttl |-> ttl, clock |-> clock]
Req(to, path, body) ==
  [st |-> "sent", to |-> to, path |-> path, body |-> body, ok |-> FALSE,
   data |-> <<>>]
Answer(req, ok, data) == [req EXCEPT !.st = "done", !.ok = ok, !.data = data]

\* Node::get_clock: the Store's clock, or an empty map when the Store
\* answers LoadClock with an error (control_plane.rs:95-100)
get_clock(d, fails) == IF fails THEN EmptyClock ELSE load_clock(d)

\* the rest of Node::update_values after the entries: the clock is read,
\* merged with the incoming one and saved (control_plane.rs:219-235)
update_clock(d, incoming_clock, fails) ==
  sync_clock(d, merge_clock(get_clock(d, fails), incoming_clock))

\* a Store command may fail while the budget of failures lasts
StoreFails(f) ==
  /\ f => dberr < MaxDbErrors
  /\ dberr' = IF f THEN dberr + 1 ELSE dberr

\* a panic of Node::listen on host h: the task ends, the queue's receiver is
\* dropped with the messages in it, and every oneshot sender it held is
\* dropped, so each task awaiting a reply panics in turn (the HTTP handlers
\* answer nothing, the trigger task ends)
Panic(h) ==
  /\ rep' = [rep EXCEPT ![h] = [Idle EXCEPT !.pc = "dead"]]
  /\ cq' = [cq EXCEPT ![h] = <<>>]
  /\ http' = [k \in Peers |->
                IF k = h THEN NoReq
                ELSE IF http[k].st = "wait" /\ http[k].to = h
                     THEN Answer(http[k], FALSE, <<>>)
                     ELSE http[k]]
  /\ trig' = [trig EXCEPT ![h] = IF @ = "wait" THEN "dead" ELSE @]

\* ---------------------------------------------------------------- actions
\* Node::listen, "init row, if needed" (control_plane.rs:241-253)
Boot(h) ==
  /\ rep[h].pc = "boot"
  /\ db' = [db EXCEPT ![h] = insert_self(@, h)]
  /\ rep' = [rep EXCEPT ![h] = Idle]
  /\ UNCHANGED <<up, cq, http, trig, daemon, copies, dberr, outages, posts, last>>

\* trigger_anti_entropy: one turn of the loop up to the reply wait
Trigger(h) ==
  /\ trig[h] = "sleep"
  /\ IF rep[h].pc = "dead"
     THEN /\ trig' = [trig EXCEPT ![h] = "dead"]
          /\ UNCHANGED cq
     ELSE /\ trig' = [trig EXCEPT ![h] = "wait"]
          /\ cq' = [cq EXCEPT ![h] =
                      Append(@, Msg("AntiEntropy", "trigger", None, None, None))]
  /\ UNCHANGED <<db, up, rep, http, daemon, copies, dberr, outages, posts, last>>

\* the `local` flag of the command surface's own write: daemon.rs builds
\* CopyText / CopyImage without the field; the write is the WriteLocal of the
\* copy command
DaemonLocal == TRUE

CopiesSoFar == copies["h1"] + copies["h2"]

\* handle_client, "copy": the Store write and its reply (daemon.rs:207-238)
Copy(h, e, k) ==
  /\ daemon[h] = NoCmd
  /\ CopiesSoFar < MaxCopies
  /\ k \in Mintable
  /\ LET r == CopyEntry(db[h], e, k, DaemonLocal, TRUE)
     IN /\ db' = [db EXCEPT ![h] = r.db]
        /\ daemon' = [daemon EXCEPT ![h] =
                        IF r.ok THEN [st |-> "transmit", entry |-> e]
                        ELSE NoCmd]
        /\ copies' = [copies EXCEPT ![h] = IF r.ok THEN @ + 1 ELSE @]
  /\ UNCHANGED <<up, rep, cq, http, trig, dberr, outages, posts, last>>

\* the message of the command surface to the Replicator: daemon.rs builds
\* Transmit {} without fields; they are the copied entry, no ttl and no clock
DaemonTransmitMsg(e) == Msg("Transmit", "daemon", Some(e), None, None)

\* handle_client, "copy": the hand-off after a successful reply
\* (daemon.rs:239-248); a send to a dead Replicator fails and is ignored
CopyTransmit(h) ==
  /\ daemon[h].st = "transmit"
  /\ cq' = [cq EXCEPT ![h] =
              IF rep[h].pc = "dead" THEN @
              ELSE Append(@, DaemonTransmitMsg(daemon[h].entry))]
  /\ daemon' = [daemon EXCEPT ![h] = NoCmd]
  /\ UNCHANGED <<db, up, rep, http, trig, copies, dberr, outages, posts, last>>

\* the clock the /gossip handler hands on with the entry: http_server.rs
\* builds Transmit without the field; it is the clock of the payload
HandlerTransmitClock(clock) == Some(clock)

\* an HTTP request of peer k reaches a host (http_server.rs):
\* recent_clipboard asks the Store and answers; clock and gossip send
\* GetClock to the Replicator, and panic when its queue is closed
Handle(k) ==
  /\ http[k].st = "sent"
  /\ http[k].to \in Hosts
  /\ LET p == http[k].to
     IN IF ~up[p] \/ ~up[k]
        THEN /\ http' = [http EXCEPT ![k] = Answer(@, FALSE, <<>>)]
             /\ UNCHANGED cq
        ELSE IF http[k].path = "/recent_clipboard"
        THEN /\ http' = [http EXCEPT ![k] =
                           Answer(@, TRUE, get_recent(db[p], RECENT_LENGTH))]
             /\ UNCHANGED cq
        ELSE IF rep[p].pc = "dead"
        THEN /\ http' = [http EXCEPT ![k] = Answer(@, FALSE, <<>>)]
             /\ UNCHANGED cq
        ELSE /\ http' = [http EXCEPT ![k].st = "wait"]
             /\ cq' = [cq EXCEPT ![p] =
                         Append(@, Msg("GetClock", k, None, None, None))]
  /\ UNCHANGED <<db, up, rep, trig, daemon, copies, dberr, outages, posts, last>>

\* Node::listen, ControlCommand::GetClock, and what the handler that asked
\* the gossip handler's test for passing the payload on: the local clock is
\* behind the payload's and hops are left (http_server.rs:92)
gossip_forwards(clock, incoming, ttl) == is_outdated(clock, incoming) /\ ttl > 0

forward_ttl_same(ttl) == ttl

\* the hop budget the handler puts in its Transmit (http_server.rs:96)
forward_ttl(ttl) == ttl - 1

\* does with the reply: clock answers with it (http_server.rs:19-36), gossip
\* either answers 200 or sends Transmit (http_server.rs:90-100)
GetClock(h, f) ==
  /\ rep[h].pc = "idle"
  /\ cq[h] # <<>>
  /\ Head(cq[h]).cmd = "GetClock"
  /\ StoreFails(f)
  /\ LET k == Head(cq[h]).from
         data == get_clock(db[h], f)
         body == http[k].body
     IN IF http[k].path = "/clock"
        THEN /\ http' = [http EXCEPT ![k] = Answer(@, TRUE, data)]
             /\ cq' = [cq EXCEPT ![h] = Tail(@)]
        ELSE IF gossip_forwards(data, body.clock, body.ttl)
        THEN /\ http' = http
             /\ cq' = [cq EXCEPT ![h] =
                         Append(Tail(@),
                                Msg("Transmit", k, Some(body.entry),
                                    Some(forward_ttl(body.ttl)),
                                    HandlerTransmitClock(body.clock)))]
        ELSE /\ http' = [http EXCEPT ![k] = Answer(@, TRUE, <<>>)]
             /\ cq' = [cq EXCEPT ![h] = Tail(@)]
  /\ UNCHANGED <<db, up, rep, trig, daemon, copies, outages, posts, last>>

\* Node::listen, ControlCommand::AntiEntropy: reload_neighbors and the
\* snapshot of the list (control_plane.rs:258-266)
AntiEntropy(h, nb) ==
  /\ rep[h].pc = "idle"
  /\ cq[h] # <<>>
  /\ Head(cq[h]).cmd = "AntiEntropy"
  /\ rep' = [rep EXCEPT ![h] =
               [Idle EXCEPT !.pc = "ae", !.msg = Head(cq[h]), !.nbrs = nb,
                            !.i = 1]]
  /\ cq' = [cq EXCEPT ![h] = Tail(@)]
  /\ UNCHANGED <<db, up, http, trig, daemon, copies, dberr, outages, posts, last>>

\* the head of the for loop: offline neighbours are skipped, the next online
\* one is asked for its clock; after the last the tick is answered
\* (control_plane.rs:268-275, 306)
AeNext(h) ==
  /\ rep[h].pc = "ae"
  /\ LET j == next_online(rep[h].nbrs, rep[h].i)
     IN IF j > Len(rep[h].nbrs)
        THEN /\ rep' = [rep EXCEPT ![h] = Idle]
             /\ trig' = [trig EXCEPT ![h] = "sleep"]
             /\ UNCHANGED http
        ELSE /\ rep' = [rep EXCEPT ![h].pc = "ae_clock", ![h].i = j]
             /\ http' = [http EXCEPT ![h] =
                           Req(rep[h].nbrs[j].HostName, "/clock", <<>>)]
             /\ UNCHANGED trig
  /\ UNCHANGED <<db, up, cq, daemon, copies, dberr, outages, posts, last>>

\* a loop in which an error of GET /clock ends the round
AeClockErrorEnds(h, f) ==
  /\ rep[h].pc = "ae_clock"
  /\ http[h].st = "done"
  /\ IF http[h].ok
     THEN /\ StoreFails(f)
          /\ IF is_outdated(get_clock(db[h], f), http[h].data)
             THEN /\ rep' = [rep EXCEPT ![h].pc = "ae_recent",
                                        ![h].clock = http[h].data]
                  /\ http' = [http EXCEPT ![h] =
                                Req(@.to, "/recent_clipboard", <<>>)]
             ELSE /\ rep' = [rep EXCEPT ![h].pc = "ae", ![h].i = @ + 1]
                  /\ http' = [http EXCEPT ![h] = NoReq]
     ELSE /\ ~f
          /\ rep' = [rep EXCEPT ![h].pc = "ae",
                                ![h].i = Len(rep[h].nbrs) + 1]
          /\ http' = [http EXCEPT ![h] = NoReq]
          /\ UNCHANGED dberr
  /\ UNCHANGED <<db, up, cq, trig, daemon, copies, outages, posts, last>>

\* the answer to GET /clock: an error skips the peer, a clock is compared
\* with the local one and GET /recent_clipboard follows if the local one is
\* outdated (control_plane.rs:275-295)
AeClock(h, f) ==
  /\ rep[h].pc = "ae_clock"
  /\ http[h].st = "done"
  /\ IF http[h].ok
     THEN /\ StoreFails(f)
          /\ IF is_outdated(get_clock(db[h], f), http[h].data)
             THEN /\ rep' = [rep EXCEPT ![h].pc = "ae_recent",
                                        ![h].clock = http[h].data]
                  /\ http' = [http EXCEPT ![h] =
                                Req(@.to, "/recent_clipboard", <<>>)]
             ELSE /\ rep' = [rep EXCEPT ![h].pc = "ae", ![h].i = @ + 1]
                  /\ http' = [http EXCEPT ![h] = NoReq]
     ELSE /\ ~f
          /\ rep' = [rep EXCEPT ![h].pc = "ae", ![h].i = @ + 1]
          /\ http' = [http EXCEPT ![h] = NoReq]
          /\ UNCHANGED dberr
  /\ UNCHANGED <<db, up, cq, trig, daemon, copies, outages, posts, last>>

\* the answer to GET /recent_clipboard: both expects panic on an error;
\* otherwise the entries are written (control_plane.rs:293-303, 189-217)
AeRecent(h) ==
  /\ rep[h].pc = "ae_recent"
  /\ http[h].st = "done"
  /\ IF ~http[h].ok
     THEN /\ Panic(h)
          /\ UNCHANGED db
          /\ UNCHANGED last
     ELSE LET w == write_updates(db[h], http[h].data, 1)
          IN /\ db' = [db EXCEPT ![h] = w.db]
             /\ last' = [op |-> "update_values", host |-> h,
                         dup |-> \E i \in DOMAIN http[h].data :
                                   HasKey(db[h], http[h].data[i][2]),
                         other |-> \E i \in DOMAIN http[h].data :
                                     \E r \in db[h].clipboard :
                                       /\ r.key = http[h].data[i][2]
                                       /\ RowEntry(r) # http[h].data[i][1]]
             /\ IF w.panic
                THEN Panic(h)
                ELSE /\ rep' = [rep EXCEPT ![h].pc = "ae_merge"]
                     /\ http' = [http EXCEPT ![h] = NoReq]
                     /\ UNCHANGED <<cq, trig>>
  /\ UNCHANGED <<up, daemon, copies, dberr, outages, posts>>

\* the clock step of Node::update_values
AeMerge(h, f) ==
  /\ rep[h].pc = "ae_merge"
  /\ StoreFails(f)
  /\ db' = [db EXCEPT ![h] = update_clock(@, rep[h].clock, f)]
  /\ rep' = [rep EXCEPT ![h].pc = "ae", ![h].i = @ + 1]
  /\ UNCHANGED <<up, cq, http, trig, daemon, copies, outages, posts, last>>

\* the reply of the Transmit arm: send on a oneshot whose receiver was
\* dropped fails, and the expect panics.  The command surface drops its
\* receiver as soon as the message is queued (daemon.rs:240-247); the
\* /gossip handler awaits the reply (http_server.rs:101).
TransmitReply(h, ok) ==
  LET k == rep[h].msg.from
  IN IF k = "daemon"
     THEN Panic(h)
     ELSE /\ rep' = [rep EXCEPT ![h] = Idle]
          /\ http' = [http EXCEPT ![k] = Answer(@, ok, <<>>)]
          /\ UNCHANGED <<cq, trig>>

\* Node::listen, ControlCommand::Transmit: the entry is written under a new
\* key, with local = clock.is_none(); the save_clock future of line 343 is
\* never awaited, so no SaveClock is sent; then Node::gossip reloads the
\* neighbours and reads the clock (control_plane.rs:324-350, 121-129)
Transmit(h, k, nb, f, io_ok) ==
  /\ rep[h].pc = "idle"
  /\ cq[h] # <<>>
  /\ Head(cq[h]).cmd = "Transmit"
  /\ k \in Mintable
  /\ ~io_ok => ~f
  /\ StoreFails(f \/ ~io_ok)
  /\ LET m == Head(cq[h])
         r == CopyData(db[h], Unwrap(m.data), k, ~IsSome(m.clock), io_ok)
     IN /\ db' = [db EXCEPT ![h] = r.db]
        /\ cq' = [cq EXCEPT ![h] = Tail(@)]
        /\ rep' = [rep EXCEPT ![h] =
                     [Idle EXCEPT !.pc = IF r.ok THEN "gossip" ELSE "failed",
                                  !.msg = m, !.nbrs = nb, !.i = 1,
                                  !.clock = IF r.ok THEN get_clock(r.db, f)
                                            ELSE EmptyClock,
                                  !.ttl = IF IsSome(m.ttl) THEN Unwrap(m.ttl)
                                          ELSE TTL]]
  /\ UNCHANGED <<up, http, trig, daemon, copies, outages, posts, last>>

\* the else branch of the Transmit arm (control_plane.rs:352-356)
TransmitFailed(h) ==
  /\ rep[h].pc = "failed"
  /\ TransmitReply(h, FALSE)
  /\ UNCHANGED <<db, up, daemon, copies, dberr, outages, posts, last>>

\* the for loop of Node::gossip: the next online neighbour is sent the
\* entry; after the loop the Transmit is answered
\* (control_plane.rs:130-139, 351)
GossipNext(h) ==
  /\ rep[h].pc = "gossip"
  /\ LET j == next_online(rep[h].nbrs, rep[h].i)
     IN IF j > Len(rep[h].nbrs)
        THEN TransmitReply(h, TRUE)
        ELSE /\ rep' = [rep EXCEPT ![h].pc = "gossip_wait", ![h].i = j]
             /\ http' = [http EXCEPT ![h] =
                           Req(rep[h].nbrs[j].HostName, "/gossip",
                               [clock |-> rep[h].clock,
                                entry |-> Unwrap(rep[h].msg.data),
                                ttl |-> rep[h].ttl])]
             /\ UNCHANGED <<cq, trig>>
  /\ UNCHANGED <<db, up, daemon, copies, dberr, outages, posts, last>>

\* the number of sends after which the loop of Node::gossip breaks
\* (control_plane.rs:142-145)
gossip_break(sent, neighbor_count) == sent > neighbor_count

\* the answer to POST /gossip, whatever it is, is dropped
GossipResp(h) ==
  /\ rep[h].pc = "gossip_wait"
  /\ http[h].st = "done"
  /\ rep' = [rep EXCEPT ![h].pc = "gossip",
                        ![h].sent = @ + 1,
                        ![h].i = IF gossip_break(rep[h].sent + 1, MAX_PER_ROUND)
                                 THEN Len(rep[h].nbrs) + 1 ELSE @ + 1]
  /\ http' = [http EXCEPT ![h] = NoReq]
  /\ UNCHANGED <<db, up, cq, trig, daemon, copies, dberr, outages, posts, last>>

\* a host leaves or rejoins the mesh
Offline(h) ==
  /\ up[h]
  /\ outages < MaxOutages
  /\ up' = [up EXCEPT ![h] = FALSE]
  /\ outages' = outages + 1
  /\ UNCHANGED <<db, rep, cq, http, trig, daemon, copies, dberr, posts, last>>

Online(h) ==
  /\ ~up[h]
  /\ up' = [up EXCEPT ![h] = TRUE]
  /\ UNCHANGED <<db, rep, cq, http, trig, daemon, copies, dberr, outages, posts, last>>

\* ------------------------------------------------- the mesh of two hosts
\* every peer is a host running the service; Store reads do not fail
Step(h) ==
  \/ Boot(h)
  \/ Trigger(h)
  \/ \E e \in Entries, k \in Keys : Copy(h, e, k)
  \/ CopyTransmit(h)
  \/ Handle(h)
  \/ GetClock(h, FALSE)
  \/ \E nb \in PeerLists(Hosts \ {h}) : AntiEntropy(h, nb)
  \/ AeNext(h)
  \/ AeClock(h, FALSE)
  \/ AeRecent(h)
  \/ AeMerge(h, FALSE)
  \/ \E k \in Keys, nb \in PeerLists(Hosts \ {h}) : Transmit(h, k, nb, FALSE, TRUE)
  \/ GossipNext(h)
  \/ GossipResp(h)
  \/ Offline(h)
  \/ Online(h)

Next == \E h \in Hosts : Step(h)

Spec == Init /\ [][Next]_vars

\* The same mesh with its scheduling: the runtime polls every task that can
\* run, the timer of trigger_anti_entropy fires, requests in flight are
\* delivered or fail, and a host that left the mesh rejoins it.  Copy
\* commands and outages happen or not.
Fairness ==
  \A h \in Hosts :
    /\ WF_vars(Boot(h))
    /\ WF_vars(Trigger(h))
    /\ WF_vars(CopyTransmit(h))
    /\ WF_vars(Handle(h))
    /\ WF_vars(GetClock(h, FALSE))
    /\ WF_vars(\E nb \in PeerLists(Hosts \ {h}) : AntiEntropy(h, nb))
    /\ WF_vars(AeNext(h))
    /\ WF_vars(AeClock(h, FALSE))
    /\ WF_vars(AeRecent(h))
    /\ WF_vars(AeMerge(h, FALSE))
    /\ WF_vars(\E k \in Keys, nb \in PeerLists(Hosts \ {h}) :
                 Transmit(h, k, nb, FALSE, TRUE))
    /\ WF_vars(GossipNext(h))
    /\ WF_vars(GossipResp(h))
    /\ WF_vars(Online(h))

SpecFair == Init /\ [][Next]_vars /\ Fairness

\* ------------------------------------------------------------- the Store
\* One database served by Database::listen: every command its callers send,
\* with arguments drawn from small sets, across restarts of the service
\* under any host id.
StoreHost == "h1"

\* the clocks a peer may answer GET /clock with
Counters == 0 .. MaxCounter
ClocksOver(S) == UNION {[D -> Counters] : D \in SUBSET S}

SelfRows(d) == {r \in d.clock : r.self}
HasRow(d, id) == \E r \in d.clock : r.key = id
TimeOf(d, id) == (CHOOSE r \in d.clock : r.key = id).time

\* the keys the callers of the Store write under
StoreKeys == 0 .. MaxRows

StoreFrame == UNCHANGED <<up, rep, cq, http, trig, daemon, copies, outages, posts>>

\* a start of the service: Node::listen sends InsertSelf with the host name
\* tailscale reports at that time
StoreInsertSelf(host_name) ==
  /\ db' = [db EXCEPT ![StoreHost] = insert_self(@, host_name)]
  /\ last' = [op |-> "InsertSelf", host_name |-> host_name]
  /\ UNCHANGED dberr
  /\ StoreFrame

\* a CopyText or CopyImage command, with either value of its local flag
StoreCopy(e, k, local, io_ok) ==
  /\ local => \A r \in SelfRows(db[StoreHost]) : r.time < MaxSelf
  /\ LET r == CopyEntry(db[StoreHost], e, k, local, io_ok)
     IN /\ Cardinality(r.db.clipboard) <= MaxRows
        /\ db' = [db EXCEPT ![StoreHost] = r.db]
        /\ last' = [op |-> "Copy", local |-> local, ok |-> r.ok,
                    dup |-> HasKey(db[StoreHost], k)]
  /\ UNCHANGED dberr
  /\ StoreFrame

\* the clock step of update_values, which the Replicator runs after its
\* InsertSelf and when the local clock is outdated with respect to the
\* incoming one; the read of the clock inside update_values may fail
StoreMerge(incoming, f) ==
  /\ SelfRows(db[StoreHost]) # {}
  /\ is_outdated(load_clock(db[StoreHost]), incoming)
  /\ db' = [db EXCEPT ![StoreHost] = update_clock(@, incoming, f)]
  /\ last' = [op |-> "SaveClock", incoming |-> incoming, fails |-> f]
  /\ UNCHANGED dberr
  /\ StoreFrame

StoreNext ==
  \/ \E host_name \in Hosts : StoreInsertSelf(host_name)
  \/ \E e \in Entries, k \in StoreKeys, local \in BOOLEAN, io_ok \in BOOLEAN :
       StoreCopy(e, k, local, io_ok)
  \/ \E incoming \in ClocksOver(Hosts), f \in BOOLEAN : StoreMerge(incoming, f)

SpecStore == Init /\ [][StoreNext]_vars

\* --------------------------------------------------- the Store and its reads
\* The same database with the writes of every caller, under keys in any
\* order, and the paste command at every offset.
StorePaste(offset, set_ok) ==
  /\ last' = [op |-> "Paste", offset |-> offset]
               @@ Paste(db[StoreHost], offset, set_ok)
  /\ UNCHANGED <<db, dberr>>
  /\ StoreFrame

PasteNext ==
  \/ \E e \in Entries, k \in StoreKeys, local \in BOOLEAN :
       StoreCopy(e, k, local, TRUE)
  \/ \E offset \in 0 .. MaxRows, set_ok \in BOOLEAN : StorePaste(offset, set_ok)

SpecPaste == Init /\ [][PasteNext]_vars

\* ------------------------------------------------- the copy command, in steps
\* handle_client, "copy", one await at a time on the host of the Store: the
\* read of the OS clipboard and the send to the Store, the reply of the Store,
\* the hand-off to the Replicator.

\* what handle_client does with the reply of the Store: on Ok it goes on to
\* send Transmit, on Err it answers the client (daemon.rs:237-252)
copy_response_always(response_ok, e) == [st |-> "transmit", entry |-> e]

copy_response(response_ok, e) ==
  IF response_ok THEN [st |-> "transmit", entry |-> e] ELSE NoCmd

\* the clipboard is read; when text, image and the fallback all fail the
\* client is answered "failed to copy" and nothing is sent, else CopyText or
\* CopyImage goes to the Store with a fresh key (daemon.rs:207-235)
CommandCopy(read_ok, e, k) ==
  /\ daemon[StoreHost] = NoCmd
  /\ CopiesSoFar < MaxCopies
  /\ k \in Mintable
  /\ daemon' = [daemon EXCEPT ![StoreHost] =
                  IF read_ok THEN [st |-> "sent", entry |-> e, timestamp |-> k]
                  ELSE NoCmd]
  /\ last' = [op |-> "CopyCommand", sent |-> read_ok]
  /\ UNCHANGED <<db, up, rep, cq, http, trig, copies, dberr, outages, posts>>

\* the Store serves the command and replies; handle_client wakes from
\* y.await with the reply (db.rs:362-387, daemon.rs:236-252)
CommandReply(io_ok) ==
  /\ daemon[StoreHost].st = "sent"
  /\ \A r \in SelfRows(db[StoreHost]) : r.time < MaxSelf
  /\ LET r == CopyEntry(db[StoreHost], daemon[StoreHost].entry,
                        daemon[StoreHost].timestamp, DaemonLocal, io_ok)
     IN /\ db' = [db EXCEPT ![StoreHost] = r.db]
        /\ daemon' = [daemon EXCEPT ![StoreHost] =
                        copy_response(r.ok, daemon[StoreHost].entry)]
        /\ copies' = [copies EXCEPT ![StoreHost] = IF r.ok THEN @ + 1 ELSE @]
        /\ last' = [op |-> "Copy", local |-> DaemonLocal, ok |-> r.ok,
                    dup |-> HasKey(db[StoreHost], daemon[StoreHost].timestamp)]
  /\ UNCHANGED <<up, rep, cq, http, trig, dberr, outages, posts>>

CommandNext ==
  \/ \E host_name \in Hosts : StoreInsertSelf(host_name)
  \/ \E read_ok \in BOOLEAN, e \in Entries, k \in Keys :
       CommandCopy(read_ok, e, k)
  \/ \E io_ok \in BOOLEAN : CommandReply(io_ok)
  \/ CopyTransmit(StoreHost)

SpecCommand == Init /\ [][CommandNext]_vars

\* ------------------------------------------- one host among foreign peers
\* Host h1 runs the service; its peers p1 and p2 are any programs speaking
\* the HTTP protocol: they send it requests and answer the ones it sends.
\* Store commands of the Replicator may fail.
OpenHost == "h1"

\* the clocks a peer answers GET /clock with hold its own counter
EnvClocks(p) ==
  {c \in ClocksOver(EnvHosts) : p \in DOMAIN c}
\* the payloads a peer gossips: it has written the entry, so its own counter
\* is at least 1
EnvBodies(p) ==
  {[clock |-> c, entry |-> TextA, ttl |-> t] :
     c \in [{p} -> 1 .. MaxCounter], t \in 0 .. MaxTtl}
\* the keys of the entries a peer holds, minted before the run
EnvKeys == {0}
EnvRecents ==
  {<<>>} \cup {<< <<TextA, k>> >> : k \in EnvKeys}

\* no request of a peer is being served
Quiet == \A q \in EnvHosts : http[q] = NoReq

\* a peer sends POST /gossip; the peers' requests come one at a time and
\* between the rounds of anti-entropy
EnvPost(p, body) ==
  /\ Quiet
  /\ trig[OpenHost] # "wait"
  /\ posts.n < MaxPosts
  /\ http' = [http EXCEPT ![p] = Req(OpenHost, "/gossip", body)]
  /\ UNCHANGED <<db, up, rep, cq, trig, daemon, copies, dberr, outages, posts, last>>

\* a peer reads the response to its request
EnvTake(p) ==
  /\ http[p] # NoReq
  /\ http[p].st = "done"
  /\ posts' = IF http[p].path = "/gossip" /\ http[p].ok
              THEN [n |-> posts.n + 1, body |-> http[p].body]
              ELSE posts
  /\ http' = [http EXCEPT ![p] = NoReq]
  /\ UNCHANGED <<db, up, rep, cq, trig, daemon, copies, dberr, outages, last>>

\* the request of the host's Replicator that a peer has received
Asked(path) ==
  /\ http[OpenHost] # NoReq
  /\ http[OpenHost].st = "sent"
  /\ http[OpenHost].to \notin Hosts
  /\ http[OpenHost].path = path

EnvFrame ==
  UNCHANGED <<db, up, rep, cq, trig, daemon, copies, dberr, outages, posts, last>>

\* a peer answers GET /clock
EnvClock(c) ==
  /\ Asked("/clock")
  /\ c \in EnvClocks(http[OpenHost].to)
  /\ http' = [http EXCEPT ![OpenHost] = Answer(@, TRUE, c)]
  /\ EnvFrame

\* a peer answers GET /recent_clipboard
EnvRecent(r) ==
  /\ Asked("/recent_clipboard")
  /\ http' = [http EXCEPT ![OpenHost] = Answer(@, TRUE, r)]
  /\ EnvFrame

\* a peer answers POST /gossip
EnvGossip ==
  /\ Asked("/gossip")
  /\ http' = [http EXCEPT ![OpenHost] = Answer(@, TRUE, <<>>)]
  /\ EnvFrame

\* a request of the host's Replicator fails
EnvError ==
  /\ \E path \in {"/clock", "/recent_clipboard", "/gossip"} : Asked(path)
  /\ http' = [http EXCEPT ![OpenHost] = Answer(@, FALSE, <<>>)]
  /\ EnvFrame

\* the tick of trigger_anti_entropy, between the requests of the peers
OpenTrigger ==
  /\ Quiet
  /\ Trigger(OpenHost)

OpenNext ==
  \/ Boot(OpenHost)
  \/ OpenTrigger
  \/ \E p \in EnvHosts : Handle(p)
  \/ \E f \in BOOLEAN : GetClock(OpenHost, f)
  \/ \E nb \in PeerLists(EnvHosts) : AntiEntropy(OpenHost, nb)
  \/ AeNext(OpenHost)
  \/ \E f \in BOOLEAN : AeClock(OpenHost, f)
  \/ AeRecent(OpenHost)
  \/ \E f \in BOOLEAN : AeMerge(OpenHost, f)
  \/ \E k \in Keys, nb \in PeerLists(EnvHosts), f \in BOOLEAN, io_ok \in BOOLEAN :
       Transmit(OpenHost, k, nb, f, io_ok)
  \/ TransmitFailed(OpenHost)
  \/ GossipNext(OpenHost)
  \/ GossipResp(OpenHost)
  \/ \E p \in EnvHosts : \E body \in EnvBodies(p) : EnvPost(p, body)
  \/ \E p \in EnvHosts : EnvTake(p)
  \/ \E c \in ClocksOver(EnvHosts) : EnvClock(c)
  \/ \E r \in EnvRecents : EnvRecent(r)
  \/ EnvGossip
  \/ EnvError

SpecOpen == Init /\ [][OpenNext]_vars

\* ------------------------------------------- one host relaying for its peers
\* Host h1 and the /gossip requests of its peers alone: every payload a peer
\* may post, the Transmit of the handler and the round that sends the entry
\* on; the peers answer the round's requests, or the requests fail.
RelayNext ==
  \/ Boot(OpenHost)
  \/ \E p \in EnvHosts : Handle(p)
  \/ GetClock(OpenHost, FALSE)
  \/ \E k \in Keys, nb \in PeerLists(EnvHosts) :
       Transmit(OpenHost, k, nb, FALSE, TRUE)
  \/ GossipNext(OpenHost)
  \/ GossipResp(OpenHost)
  \/ \E p \in EnvHosts : \E body \in EnvBodies(p) : EnvPost(p, body)
  \/ \E p \in EnvHosts : EnvTake(p)
  \/ EnvGossip
  \/ EnvError

SpecRelay == Init /\ [][RelayNext]_vars

\* --------------------------------------------- one host as a replica of peers
\* Host h1 receiving from its peers both ways, with a Store that serves every
\* command: the peers post /gossip payloads and answer the requests of its
\* anti-entropy rounds and of its gossip rounds, or the requests fail.  A peer
\* has written and answers GET /clock with its own counter.
ReplicaNext ==
  \/ Boot(OpenHost)
  \/ OpenTrigger
  \/ \E p \in EnvHosts : Handle(p)
  \/ GetClock(OpenHost, FALSE)
  \/ \E nb \in PeerLists(EnvHosts) : AntiEntropy(OpenHost, nb)
  \/ AeNext(OpenHost)
  \/ AeClock(OpenHost, FALSE)
  \/ AeRecent(OpenHost)
  \/ AeMerge(OpenHost, FALSE)
  \/ \E k \in Keys, nb \in PeerLists(EnvHosts) :
       Transmit(OpenHost, k, nb, FALSE, TRUE)
  \/ GossipNext(OpenHost)
  \/ GossipResp(OpenHost)
  \/ \E p \in EnvHosts : \E body \in EnvBodies(p) : EnvPost(p, body)
  \/ \E p \in EnvHosts : EnvTake(p)
  \/ \E p \in EnvHosts : \E c \in [{p} -> 1 .. MaxCounter] : EnvClock(c)
  \/ \E r \in EnvRecents : EnvRecent(r)
  \/ EnvGossip
  \/ EnvError

SpecReplica == Init /\ [][ReplicaNext]_vars

\* ------------------------------------------------- one host in a large mesh
\* Host h1 with up to MaxPeers peers in the list tailscale reports, each
\* flagged online or offline: its copies, the gossip round of each and its
\* anti-entropy rounds.  The peers answer its requests, or the requests fail.
FanNames == <<"p1", "p2", "p3", "p4", "p5", "p6", "p7", "p8">>

\* the peer lists reload_neighbors can leave for a mesh of n peers: any flags
FanLists(n) ==
  {[i \in 1 .. n |-> [HostName |-> FanNames[i], Online |-> f[i]]] :
     f \in [1 .. n -> BOOLEAN]}

\* the first copy of the host, the one whose gossip round runs
FanCopy(e, k) ==
  /\ copies[OpenHost] = 0
  /\ Copy(OpenHost, e, k)

\* the rounds of anti-entropy run while the mesh has MaxAePeers peers, the
\* gossip rounds when it has grown to MaxPeers; a peer has written and
\* answers GET /clock with its own counter, and GET /recent_clipboard with
\* nothing the host lacks
FanNext ==
  \/ Boot(OpenHost)
  \/ Trigger(OpenHost)
  \/ \E k \in Keys : FanCopy(TextA, k)
  \/ CopyTransmit(OpenHost)
  \/ \E nb \in FanLists(MaxAePeers) : AntiEntropy(OpenHost, nb)
  \/ AeNext(OpenHost)
  \/ AeClock(OpenHost, FALSE)
  \/ AeRecent(OpenHost)
  \/ AeMerge(OpenHost, FALSE)
  \/ \E k \in Keys, nb \in FanLists(MaxPeers) :
       Transmit(OpenHost, k, nb, FALSE, TRUE)
  \/ GossipNext(OpenHost)
  \/ GossipResp(OpenHost)
  \/ \E p \in EnvHosts : \E c \in [{p} -> 1 .. MaxCounter] : EnvClock(c)
  \/ EnvRecent(<<>>)
  \/ EnvGossip
  \/ EnvError

SpecFan == Init /\ [][FanNext]_vars

\* The same host with its scheduling: the runtime polls every task of the
\* host that can run and the timer fires.  Nothing obliges a peer to answer:
\* it may accept the connection and stay silent.
FanFairness ==
  /\ WF_vars(Boot(OpenHost))
  /\ WF_vars(Trigger(OpenHost))
  /\ WF_vars(CopyTransmit(OpenHost))
  /\ WF_vars(\E nb \in FanLists(MaxAePeers) : AntiEntropy(OpenHost, nb))
  /\ WF_vars(AeNext(OpenHost))
  /\ WF_vars(AeClock(OpenHost, FALSE))
  /\ WF_vars(AeRecent(OpenHost))
  /\ WF_vars(AeMerge(OpenHost, FALSE))
  /\ WF_vars(\E k \in Keys, nb \in FanLists(MaxPeers) :
               Transmit(OpenHost, k, nb, FALSE, TRUE))
  /\ WF_vars(GossipNext(OpenHost))
  /\ WF_vars(GossipResp(OpenHost))

SpecFanFair == Init /\ [][FanNext]_vars /\ FanFairness

\* ------------------------------------------------- one host in a small mesh
\* The same host in a mesh of MaxAePeers peers for its gossip rounds as well:
\* every round, of either kind, meets peers that answer and peers that fail.
SmallNext ==
  \/ Boot(OpenHost)
  \/ Trigger(OpenHost)
  \/ \E k \in Keys : FanCopy(TextA, k)
  \/ CopyTransmit(OpenHost)
  \/ \E nb \in FanLists(MaxAePeers) : AntiEntropy(OpenHost, nb)
  \/ AeNext(OpenHost)
  \/ AeClock(OpenHost, FALSE)
  \/ AeRecent(OpenHost)
  \/ AeMerge(OpenHost, FALSE)
  \/ \E k \in Keys, nb \in FanLists(MaxAePeers) :
       Transmit(OpenHost, k, nb, FALSE, TRUE)
  \/ GossipNext(OpenHost)
  \/ GossipResp(OpenHost)
  \/ \E p \in EnvHosts : \E c \in [{p} -> 1 .. MaxCounter] : EnvClock(c)
  \/ EnvRecent(<<>>)
  \/ EnvGossip
  \/ EnvError

SpecSmall == Init /\ [][SmallNext]_vars

\* ------------------------------------------------- the comparison of clocks
\* is_outdated applied to every pair of clocks, in both directions, as the
\* /gossip handler and the anti-entropy round apply it to the local clock and
\* a peer's

\* a comparison of two clocks and of the same two the other way round
CompareClocks(clock, incoming) ==
  /\ last' = [op |-> "is_outdated", clock |-> clock, incoming |-> incoming,
               result |-> is_outdated(clock, incoming),
               reverse |-> is_outdated(incoming, clock)]
  /\ UNCHANGED <<db, up, rep, cq, http, trig, daemon, copies, dberr, outages,
                 posts>>

\* the hosts the compared clocks mention: the two of the mesh and a peer
\* outside it
ClockHosts == Hosts \cup {"p1"}

ClocksNext ==
  \E clock \in ClocksOver(ClockHosts), incoming \in ClocksOver(ClockHosts) :
    CompareClocks(clock, incoming)

SpecClocks == Init /\ [][ClocksNext]_vars

\* ---------------------------------------------- one host pulling from peers
\* Host h1 and its anti-entropy alone: the peers answer GET /clock and
\* GET /recent_clipboard with any clock and any list of entries in
\* key-descending order, or the request fails; nothing gossips and the Store
\* serves every command.
PullKeys == {0, 1}
PullRecents ==
  {<<>>}
    \cup {<< <<e, k>> >> : e \in Entries, k \in PullKeys}
    \cup {<< <<e, 1>>, <<f, 0>> >> : e \in Entries, f \in Entries}

PullNext ==
  \/ Boot(OpenHost)
  \/ Trigger(OpenHost)
  \/ \E nb \in PeerLists(EnvHosts) : AntiEntropy(OpenHost, nb)
  \/ AeNext(OpenHost)
  \/ AeClock(OpenHost, FALSE)
  \/ AeRecent(OpenHost)
  \/ AeMerge(OpenHost, FALSE)
  \/ \E c \in ClocksOver(EnvHosts) : EnvClock(c)
  \/ \E r \in PullRecents : EnvRecent(r)
  \/ EnvError

SpecPull == Init /\ [][PullNext]_vars

\* ------------------------------------------ one host pulling malformed lists
\* The same host and rounds, with peers that also answer
\* GET /recent_clipboard with lists holding a key that is no ULID, alone or
\* after a well-formed pair.
BadKey == -1
MalformedRecents ==
  {<< <<e, BadKey>> >> : e \in Entries}
    \cup {<< <<e, 1>>, <<f, BadKey>> >> : e \in Entries, f \in Entries}

MalformedNext ==
  \/ Boot(OpenHost)
  \/ Trigger(OpenHost)
  \/ \E nb \in PeerLists(EnvHosts) : AntiEntropy(OpenHost, nb)
  \/ AeNext(OpenHost)
  \/ AeClock(OpenHost, FALSE)
  \/ AeRecent(OpenHost)
  \/ AeMerge(OpenHost, FALSE)
  \/ \E c \in ClocksOver(EnvHosts) : EnvClock(c)
  \/ \E r \in PullRecents \cup MalformedRecents : EnvRecent(r)
  \/ EnvError

SpecMalformed == Init /\ [][MalformedNext]_vars


\* ------------------------------------- one host pulling into a failing Store
\* The same host and rounds with a Store that may answer a write of
\* update_values with an error (the insert fails: disk full, database locked).

\* the answer to GET /recent_clipboard is written while the Store fails at
\* least one of the inserts (control_plane.rs:293-303, 189-217)
AeRecentIo(h, io_ok) ==
  /\ rep[h].pc = "ae_recent"
  /\ http[h].st = "done"
  /\ http[h].ok
  /\ io_ok \in [DOMAIN http[h].data -> BOOLEAN]
  /\ \E i \in DOMAIN http[h].data : ~io_ok[i]
  /\ StoreFails(TRUE)
  /\ LET w == write_updates_io(db[h], http[h].data, 1, io_ok)
     IN /\ db' = [db EXCEPT ![h] = w.db]
        /\ last' = [op |-> "update_values", host |-> h,
                    dup |-> \E i \in DOMAIN http[h].data :
                              HasKey(db[h], http[h].data[i][2]),
                    other |-> \E i \in DOMAIN http[h].data :
                                \E r \in db[h].clipboard :
                                  /\ r.key = http[h].data[i][2]
                                  /\ RowEntry(r) # http[h].data[i][1]]
        /\ IF w.panic
           THEN Panic(h)
           ELSE /\ rep' = [rep EXCEPT ![h].pc = "ae_merge"]
                /\ http' = [http EXCEPT ![h] = NoReq]
                /\ UNCHANGED <<cq, trig>>
  /\ UNCHANGED <<up, daemon, copies, outages, posts>>

PullIoNext ==
  \/ PullNext
  \/ \E io_ok \in UNION {[1 .. n -> BOOLEAN] : n \in 1 .. 2} :
       AeRecentIo(OpenHost, io_ok)

SpecPullIo == Init /\ [][PullIoNext]_vars

\* ------------------------------------------------- the mutex of the peer list
\* Host h1 with the steps of reload_neighbors and of the snapshot of the list
\* taken one at a time: the three arms of Node::listen that use the list
\* (AntiEntropy, GetNeighbors, and Transmit through Node::gossip) first await
\* tailscale's status, then lock, overwrite and unlock the list, then lock,
\* clone and unlock it, and only then go on to their requests.

\* a scope that owns a MutexGuard ends: the guard is dropped (the end of
\* reload_neighbors, line 176; the end of the blocks at 122-125, 261-264,
\* 310-313)
keep_guard(r) == r

drop_guard(r) == [r EXCEPT !.guard = FALSE]

\* GET /neighbors: the handler sends GetNeighbors (http_server.rs:56-70)
NeighborsRequest(h) ==
  /\ rep[h].pc # "dead"
  /\ cq[h] = <<>>
  /\ cq' = [cq EXCEPT ![h] =
              Append(@, Msg("GetNeighbors", "http", None, None, None))]
  /\ UNCHANGED <<db, up, rep, http, trig, daemon, copies, dberr, outages,
                 posts, last>>

\* the arms AntiEntropy and GetNeighbors start with reload_neighbors, which
\* awaits the answer of tailscale (control_plane.rs:259, 309, 161-162)
LockReload(h) ==
  /\ rep[h].pc = "idle"
  /\ cq[h] # <<>>
  /\ Head(cq[h]).cmd \in {"AntiEntropy", "GetNeighbors"}
  /\ rep' = [rep EXCEPT ![h] = [Idle EXCEPT !.pc = "reload",
                                            !.msg = Head(cq[h])]]
  /\ cq' = [cq EXCEPT ![h] = Tail(@)]
  /\ UNCHANGED <<db, up, http, trig, daemon, copies, dberr, outages, posts,
                 last>>

\* the arm Transmit writes the entry and calls Node::gossip, which starts
\* with reload_neighbors (control_plane.rs:324-350, 121)
LockTransmit(h, k) ==
  /\ rep[h].pc = "idle"
  /\ cq[h] # <<>>
  /\ Head(cq[h]).cmd = "Transmit"
  /\ k \in Mintable
  /\ LET m == Head(cq[h])
         r == CopyData(db[h], Unwrap(m.data), k, ~IsSome(m.clock), TRUE)
     IN /\ db' = [db EXCEPT ![h] = r.db]
        /\ cq' = [cq EXCEPT ![h] = Tail(@)]
        /\ rep' = [rep EXCEPT ![h] =
                     [Idle EXCEPT !.pc = IF r.ok THEN "reload" ELSE "failed",
                                  !.msg = m,
                                  !.ttl = IF IsSome(m.ttl) THEN Unwrap(m.ttl)
                                          ELSE TTL]]
  /\ UNCHANGED <<up, http, trig, daemon, copies, dberr, outages, posts, last>>

\* reload_neighbors after its awaits: the list is locked, cleared and
\* filled with the peers of the answer (control_plane.rs:172-175)
ReloadLock(h, nb) ==
  /\ rep[h].pc = "reload"
  /\ rep' = [rep EXCEPT ![h].pc = "reload_locked", ![h].guard = TRUE,
                        ![h].nbrs = nb]
  /\ UNCHANGED <<db, up, cq, http, trig, daemon, copies, dberr, outages,
                 posts, last>>

\* reload_neighbors returns (control_plane.rs:176)
ReloadReturn(h) ==
  /\ rep[h].pc = "reload_locked"
  /\ rep' = [rep EXCEPT ![h] = drop_guard([@ EXCEPT !.pc = "snapshot"])]
  /\ UNCHANGED <<db, up, cq, http, trig, daemon, copies, dberr, outages,
                 posts, last>>

\* the block of the snapshot is entered: the list is locked
\* (control_plane.rs:123, 262, 311)
SnapshotLock(h) ==
  /\ rep[h].pc = "snapshot"
  /\ rep' = [rep EXCEPT ![h].pc = "snapshot_locked", ![h].guard = TRUE]
  /\ UNCHANGED <<db, up, cq, http, trig, daemon, copies, dberr, outages,
                 posts, last>>

\* n.clone() and the end of the block (control_plane.rs:124-125, 263-264,
\* 312-313); then AntiEntropy enters its loop, Node::gossip reads the clock
\* and enters its loop, GetNeighbors replies
SnapshotClone(h) ==
  /\ rep[h].pc = "snapshot_locked"
  /\ rep' = [rep EXCEPT ![h] =
               drop_guard(
                 IF rep[h].msg.cmd = "AntiEntropy"
                 THEN [@ EXCEPT !.pc = "ae", !.i = 1]
                 ELSE IF rep[h].msg.cmd = "Transmit"
                 THEN [@ EXCEPT !.pc = "gossip", !.i = 1,
                                !.clock = get_clock(db[h], FALSE)]
                 ELSE [@ EXCEPT !.pc = "idle", !.msg = NoMsg,
                                !.nbrs = <<>>])]
  /\ UNCHANGED <<db, up, cq, http, trig, daemon, copies, dberr, outages,
                 posts, last>>

\* the task is suspended at an await: on the queue, on tailscale, on an
\* outbound request or on a reply of the Store
Suspended(h) ==
  rep[h].pc \in {"idle", "reload", "ae_clock", "ae_recent", "ae_merge",
                 "gossip_wait"}

LockNext ==
  \/ Boot(OpenHost)
  \/ Trigger(OpenHost)
  \/ \E k \in Keys : FanCopy(TextA, k)
  \/ CopyTransmit(OpenHost)
  \/ NeighborsRequest(OpenHost)
  \/ LockReload(OpenHost)
  \/ \E k \in Keys : LockTransmit(OpenHost, k)
  \/ \E nb \in FanLists(MaxAePeers) : ReloadLock(OpenHost, nb)
  \/ ReloadReturn(OpenHost)
  \/ SnapshotLock(OpenHost)
  \/ SnapshotClone(OpenHost)
  \/ AeNext(OpenHost)
  \/ AeClock(OpenHost, FALSE)
  \/ AeRecent(OpenHost)
  \/ AeMerge(OpenHost, FALSE)
  \/ GossipNext(OpenHost)
  \/ GossipResp(OpenHost)
  \/ \E p \in EnvHosts : \E c \in [{p} -> 1 .. MaxCounter] : EnvClock(c)
  \/ EnvRecent(<<>>)
  \/ EnvGossip
  \/ EnvError

SpecLock == Init /\ [][LockNext]_vars

\* ------------------------------------------------------------ properties
Max(a, b) == IF a > b THEN a ELSE b
CounterOf(d, id) == IF HasRow(d, id) THEN TimeOf(d, id) ELSE 0
IsSelf(d, id) == \E r \in d.clock : r.key = id /\ r.self
RowsAt(d, k) == {r \in d.clipboard : r.key = k}
SelfTotal(d) == IF SelfRows(d) = {} THEN 0 ELSE TimeOf(d, (CHOOSE r \in SelfRows(d) : TRUE).key)

\* C2: once a host has its self row, every step raises the self counter by
\* exactly the number of copy commands that succeed in that step: the
\* counter counts the successful local writes, one per copy.
C2_SelfCounterCountsCopies ==
  [][\A h \in Hosts :
       SelfRows(db[h]) # {} =>
         SelfTotal(db'[h]) - SelfTotal(db[h]) = copies'[h] - copies[h]]_vars

\* C3: a local write (save_text or save_image with local = true) that fails
\* leaves the clipboard and the clock, the self counter included, as they
\* were before the call.
C3_WriteLocalAtomic ==
  [][(last'.op = "Copy" /\ last'.local /\ ~last'.ok) =>
       db'[StoreHost] = db[StoreHost]]_vars

\* C5: after a merge of an incoming clock, every host other than self that
\* the local clock or the incoming clock mentions has the larger of its old
\* local counter (0 if absent) and its incoming counter (0 if absent).
C5_MergeClockIsMax ==
  [][last'.op = "SaveClock" =>
       \A h \in Hosts :
         (HasRow(db[StoreHost], h) \/ h \in DOMAIN last'.incoming)
         /\ ~IsSelf(db[StoreHost], h) =>
           /\ HasRow(db'[StoreHost], h)
           /\ TimeOf(db'[StoreHost], h) =
                Max(CounterOf(db[StoreHost], h),
                    IF h \in DOMAIN last'.incoming THEN last'.incoming[h] ELSE 0)]_vars

\* C6: a merge of an incoming clock leaves every self row as it was, also
\* when the incoming clock gives the local host another counter.
C6_MergeKeepsSelfRow ==
  [][last'.op = "SaveClock" =>
       SelfRows(db'[StoreHost]) = SelfRows(db[StoreHost])]_vars

\* C6 witness: a merge has run whose incoming clock gave the local host a
\* larger counter than the one its self row holds
C6_Witness ==
  /\ last.op = "SaveClock"
  /\ \E r \in SelfRows(db[StoreHost]) :
       r.key \in DOMAIN last.incoming /\ last.incoming[r.key] > r.time

\* C7: once the Store is initialized (an InsertSelf has run, with whatever
\* host id, so a self row exists), the clock table holds exactly one self
\* row in every state, whatever commands and restarts follow.
C7_ExactlyOneSelfRow ==
  (last.op = "InsertSelf" \/ SelfRows(db[StoreHost]) # {}) =>
    Cardinality(SelfRows(db[StoreHost])) = 1

\* C8: when anti-entropy writes a list holding an entry whose key the
\* clipboard already holds, with the same or another entry, the row of that
\* key stays as it was, the clipboard holds exactly one row for every key of
\* the list, and the Replicator goes on to the merge of the clock.
C8_DuplicateKeyInsert ==
  [][(/\ rep[OpenHost].pc = "ae_recent"
      /\ rep'[OpenHost].pc # "ae_recent"
      /\ http[OpenHost].ok
      /\ \E i \in DOMAIN http[OpenHost].data :
           HasKey(db[OpenHost], http[OpenHost].data[i][2])) =>
       /\ \A i \in DOMAIN http[OpenHost].data :
            LET k == http[OpenHost].data[i][2]
            IN /\ Cardinality(RowsAt(db'[OpenHost], k)) = 1
               /\ HasKey(db[OpenHost], k) =>
                    RowsAt(db'[OpenHost], k) = RowsAt(db[OpenHost], k)
       /\ rep'[OpenHost].pc = "ae_merge"]_vars

\* C8 witness: update_values has just written a list holding a key the
\* clipboard had under another entry, and the Replicator stands before the
\* merge
C8_Witness ==
  /\ last.op = "update_values"
  /\ last.dup
  /\ last.other
  /\ rep[OpenHost].pc = "ae_merge"

\* an entry can be read from a host's Store at some offset
Readable(h, e) ==
  \E n \in 0 .. Cardinality(db[h].clipboard) :
    read_clipboard(db[h], n).entry = Some(e)
AllUp == \A h \in Hosts : up[h]

\* C1: an entry written on a host is, from then on, eventually readable on
\* every host, unless a host is off the mesh: with the hosts online and
\* connected, anti-entropy brings every written entry everywhere.
C1_EventualConvergence ==
  \A e \in Entries :
    (\E h \in Hosts : Readable(h, e))
      ~> ((\A g \in Hosts : Readable(g, e)) \/ ~AllUp)

\* C4: no step lowers a counter of the clock table, of self or of a peer.
C4_CountersNeverDecrease ==
  [][\A id \in Peers :
       HasRow(db[OpenHost], id) =>
         /\ HasRow(db'[OpenHost], id)
         /\ TimeOf(db'[OpenHost], id) >= TimeOf(db[OpenHost], id)]_vars

\* C9: when the Replicator serves a gossip payload equal to the one a peer
\* was last answered 200 for, the Store stays as it is: no second row for
\* the entry, and the clock as after the first delivery.
C9_DuplicateGossip ==
  [][(/\ rep[OpenHost].pc = "idle"
      /\ rep'[OpenHost].pc \in {"gossip", "failed"}
      /\ rep'[OpenHost].msg.from \in EnvHosts
      /\ posts.n >= 1
      /\ http[rep'[OpenHost].msg.from].body = posts.body) =>
       db'[OpenHost] = db[OpenHost]]_vars

\* C10: when POST /gossip is answered 200, the clipboard of the receiver
\* holds the entry of the payload, whatever the ttl and the clocks.
C10_AcceptedGossipInserts ==
  [][\A p \in EnvHosts :
       (/\ http[p].st \in {"sent", "wait"}
        /\ http'[p].st = "done"
        /\ http'[p].ok
        /\ http'[p].path = "/gossip") =>
         \E r \in db'[OpenHost].clipboard : RowEntry(r) = http[p].body.entry]_vars

\* C11: the hop budget bounds re-gossip.  Every POST /gossip a host sends
\* for a message received from a peer was received with a budget t > 0 and
\* carries t - 1: a message received with budget 0 is never sent on, and a
\* message received with the originator's budget TTL = 1 is sent on with
\* budget 0, so the forwarding of one copy stops after two hops
C11_HopBudget ==
  [][(/\ rep[OpenHost].pc = "gossip"
      /\ rep'[OpenHost].pc = "gossip_wait"
      /\ rep[OpenHost].msg.from \in EnvHosts)
     => LET received == http[rep[OpenHost].msg.from].body.ttl
            sent == http'[OpenHost].body.ttl
        IN /\ received > 0
           /\ sent = received - 1
           /\ received = TTL => sent = 0]_vars

\* C11 witness: the host has sent on, with budget 0, a message that a peer
\* posted with budget 1
C11_Witness ==
  /\ rep[OpenHost].pc = "gossip_wait"
  /\ rep[OpenHost].msg.from \in EnvHosts
  /\ http[rep[OpenHost].msg.from].body.ttl = 1
  /\ http[OpenHost].path = "/gossip"
  /\ http[OpenHost].body.ttl = 0

\* what a peer g holds of a copy of text or image e made on host h: the
\* newest entry of its log is e and its clock has counter 1 for h
HoldsCopyOf(g, h, e) ==
  /\ read_clipboard(db[g], 0).entry = Some(e)
  /\ HasRow(db[g], h)
  /\ TimeOf(db[g], h) = 1

\* C12: two-host gossip.  With both hosts online all along and no earlier
\* write, once the gossip of a copy of e made on host h has reached the other
\* host and that host has stored it, a state follows in which the other host
\* reads e at offset 0 and has counter 1 for h in its clock.
C12_TwoHostGossip ==
  \A h \in Hosts : \A g \in Hosts \ {h} : \A e \in Entries :
    (/\ copies[h] = 1
     /\ rep[g].pc = "gossip"
     /\ rep[g].msg.from = h
     /\ rep[g].msg.data = Some(e))
      ~> (HoldsCopyOf(g, h, e) \/ outages > 0)

\* the gossip round of a copy made on h finds every peer of its list offline
LostGossip(h, e) ==
  /\ rep[h].pc = "gossip"
  /\ rep[h].msg.from = "daemon"
  /\ rep[h].msg.data = Some(e)
  /\ \A j \in DOMAIN rep[h].nbrs : ~rep[h].nbrs[j].Online

\* C13: offline then heal.  When the gossip of a copy of e on host h is lost
\* because the peer is offline, then, the peer being back online and running
\* anti-entropy against h, a state follows in which the peer reads e at
\* offset 0 and has counter 1 for h in its clock.
C13_OfflineThenHeal ==
  \A h \in Hosts : \A e \in Entries :
    LostGossip(h, e)
      ~> (\A g \in Hosts \ {h} : up[g] /\ HoldsCopyOf(g, h, e))

\* the counter a clock holds for a host, a missing host counting as 0
CounterAt(clock, h) == IF h \in DOMAIN clock THEN clock[h] ELSE 0

\* C14: is_outdated(local, remote) is true exactly when some host has a
\* larger counter in remote than in local, a host missing from local counting
\* as counter 0.
C14_OutdatedMissingIsZero ==
  last.op = "is_outdated" =>
    (last.result <=>
       \E h \in DOMAIN last.incoming :
         last.incoming[h] > CounterAt(last.clock, h))

C16_ReadYourWrite ==
  [][\A e \in Entries, k \in StoreKeys :
       (StoreCopy(e, k, TRUE, TRUE) /\ last'.ok)
         => read_clipboard(db'[StoreHost], 0).entry = Some(e)]_vars

\* C17: within one host the keys of successive local writes are strictly
\* increasing, also within one millisecond.  While no other host holds an
\* entry, every row of a host is a local write of its own (the copy of the
\* command surface or the write of the Transmit it sends), and each new key
\* is above all the keys before it.
C17_LocalKeysIncrease ==
  [][\A h \in Hosts :
       (\A g \in Hosts \ {h} : db[g].clipboard = {} /\ db'[g].clipboard = {})
         => \A new \in KeysOf(db'[h]) \ KeysOf(db[h]) :
              \A old \in KeysOf(db[h]) : new > old]_vars

\* C18: an entry received through gossip is stored on the receiver under the
\* key the originator gave it: the key a host writes when it serves the
\* Transmit of a peer's POST /gossip is a key of the sending host.
C18_GossipKeepsKey ==
  [][\A h \in Hosts :
       (/\ rep[h].pc = "idle"
        /\ rep'[h].pc = "gossip"
        /\ rep'[h].msg.from \in Hosts)
         => KeysOf(db'[h]) \ KeysOf(db[h])
              \subseteq KeysOf(db[rep'[h].msg.from])]_vars

\* C19: one gossip round sends POST /gossip to at most F = 5 peers, however
\* many online peers the refreshed list holds: while a POST of the round is
\* under way, it and the ones sent before it are at most MAX_PER_ROUND.
C19_FanOutAtMostF ==
  \A h \in Hosts :
    rep[h].pc = "gossip_wait" => rep[h].sent + 1 <= MAX_PER_ROUND

\* C20: a request of a gossip round or of an anti-entropy round goes to a
\* peer that is flagged online in the list the round took at its start.
C20_OnlyOnlinePeers ==
  \A h \in Hosts :
    (http[h] # NoReq /\ http[h].st = "sent")
      => \E j \in DOMAIN rep[h].nbrs :
           /\ rep[h].nbrs[j].HostName = http[h].to
           /\ rep[h].nbrs[j].Online

\* C20 witness: a round has passed over a peer flagged offline and has sent
\* its request to a later peer of the list
C20_Witness ==
  \E h \in Hosts :
    /\ http[h] # NoReq
    /\ http[h].st = "sent"
    /\ \E j \in DOMAIN rep[h].nbrs : j < rep[h].i /\ ~rep[h].nbrs[j].Online

\* the Replicator is inside the anti-entropy arm
InAeRound(h) == rep[h].pc \in {"ae", "ae_clock", "ae_recent", "ae_merge"}

\* C21: every anti-entropy firing ends with the OK reply to the tick and
\* leaves the Replicator able to serve later messages, whatever a peer does
\* on GET /clock or GET /recent_clipboard: no step of a round ends the
\* Replicator task.
C21_AeRoundSurvives ==
  [][InAeRound(OpenHost) => rep'[OpenHost].pc # "dead"]_vars

\* a request of the host's Replicator is with a peer and not answered
RequestOut(h) == http[h] # NoReq /\ http[h].st = "sent"

\* C22: every outbound request to a peer is bounded by a timeout: a request
\* that is out is eventually over, answered or failed, also when the peer
\* never answers, so the round it belongs to goes on.
C22_RequestsTimeOut ==
  \A h \in Hosts : RequestOut(h) ~> ~RequestOut(h)

\* C23: malformed peer input changes no local state.  When the answer to
\* GET /recent_clipboard cannot be read, or holds a pair whose key is not a
\* valid key, the log and the clock of the host after the exchange are the
\* ones before it.
C23_MalformedChangesNothing ==
  [][(/\ rep[OpenHost].pc = "ae_recent"
      /\ rep'[OpenHost].pc # "ae_recent"
      /\ \/ ~http[OpenHost].ok
         \/ \E i \in DOMAIN http[OpenHost].data :
              ~ValidKey(http[OpenHost].data[i][2]))
     => db'[OpenHost] = db[OpenHost]]_vars

\* the rows of a log with exactly n rows of larger key
NthLargest(d, n) ==
  {r \in d.clipboard : Cardinality({q \in d.clipboard : q.key > r.key}) = n}

\* C24: ReadAtOffset(n) returns the entry with the (n+1)-th largest key of
\* the log, in whatever order the entries were inserted, and when n is not
\* below the number of entries it answers an error and leaves the OS
\* clipboard alone.
C24_ReadAtOffset ==
  last.op = "Paste" =>
    IF last.offset < Cardinality(db[StoreHost].clipboard)
    THEN /\ \E r \in NthLargest(db[StoreHost], last.offset) :
              last.read = Some(RowEntry(r))
         /\ last.ok => last.set = last.read
    ELSE /\ ~last.ok
         /\ last.set = None

\* C24 witness: a paste at offset 1 of a log of two different entries has
\* answered success
C24_Witness ==
  /\ last.op = "Paste"
  /\ last.offset = 1
  /\ last.ok
  /\ \E r, q \in db[StoreHost].clipboard :
       r.key < q.key /\ RowEntry(r) # RowEntry(q)

\* C25: the log is grow-only and its entries are immutable: every row of a
\* host's log, key and entry, is in the log after every step, be it a local
\* write, a replicated write or a write under a key the log already holds.
C25_LogGrowOnly ==
  [][\A h \in Hosts : db[h].clipboard \subseteq db'[h].clipboard]_vars

\* C25 witness: a write under a key the log already held has been served
\* and was refused, the log holding its rows
C25_Witness ==
  /\ last.op = "Copy"
  /\ last.dup
  /\ ~last.ok
  /\ db[StoreHost].clipboard # {}

\* a step in which host h stores an entry that came from a peer: the write
\* of update_values in an anti-entropy round, or the write of the Transmit of
\* a peer's POST /gossip
ReplicatedWrite(h) ==
  /\ db'[h].clipboard # db[h].clipboard
  /\ \/ rep[h].pc = "ae_recent"
     \/ /\ rep[h].pc = "idle"
        /\ rep'[h].pc = "gossip"
        /\ rep'[h].msg.from \in EnvHosts

\* C26: a replicated write changes no clock counter: the step that stores an
\* entry pulled by anti-entropy or received by gossip leaves every row of the
\* receiver's clock, the self row included, as it was.
C26_ReplicatedWriteKeepsClock ==
  [][ReplicatedWrite(OpenHost) => db'[OpenHost].clock = db[OpenHost].clock]_vars

\* C26 witness: the host has stored one entry pulled by anti-entropy and one
\* received by gossip, and stands in the gossip round of the latter
C26_Witness ==
  /\ last.op = "update_values"
  /\ rep[OpenHost].pc = "gossip"
  /\ rep[OpenHost].msg.from \in EnvHosts
  /\ Cardinality(db[OpenHost].clipboard) = 2
  /\ SelfRows(db[OpenHost]) # {}

\* C27: InsertSelf is idempotent: served on a Store that already has the
\* self row of that host id, for instance at a restart after local writes,
\* it leaves the whole clock as it was, the self counter included.
C27_InsertSelfIdempotent ==
  [][(/\ last'.op = "InsertSelf"
      /\ IsSelf(db[StoreHost], last'.host_name))
     => db'[StoreHost].clock = db[StoreHost].clock]_vars

\* C27 witness: InsertSelf has been served for a host id whose self row
\* counts local writes
C27_Witness ==
  /\ last.op = "InsertSelf"
  /\ IsSelf(db[StoreHost], last.host_name)
  /\ CounterOf(db[StoreHost], last.host_name) > 0

\* C28: the command surface sends Transmit to the Replicator only after a
\* success reply of the Store to the copy's write: at every moment the
\* messages it has put on the queue of the Replicator are no more than the
\* copy commands the Store has answered Ok, so none is sent while a command
\* waits for its reply, after a reply Err, or after a failed clipboard read.
DaemonTransmits(q) == Len(SelectSeq(q, LAMBDA m : m.from = "daemon"))
C28_TransmitAfterSuccess ==
  \A h \in Hosts : DaemonTransmits(cq[h]) <= copies[h]
\* a copy the Store refused after raising the counter, then a copy it stored:
\* the second one alone was handed to the Replicator
C28_Witness ==
  /\ DaemonTransmits(cq[StoreHost]) = 1
  /\ Cardinality(db[StoreHost].clipboard) = 1
  /\ \E r \in SelfRows(db[StoreHost]) : r.time = 2
  /\ daemon[StoreHost] = NoCmd

\* C29: a failure at one peer does not abort a round.  When the Replicator
\* takes a failed answer to GET /clock in anti-entropy, or to POST /gossip in
\* a gossip round, its database is as before, it is still in the round, and
\* the peers it has yet to contact are the online peers after the failed one
\* (in gossip: as long as the fan-out bound has not been reached).
FailedAnswer(h, pc) ==
  /\ rep[h].pc = pc
  /\ http[h].st = "done"
  /\ ~http[h].ok
  /\ rep'[h] # rep[h]
OnlineFrom(r, i) ==
  {r.nbrs[j].HostName : j \in {x \in i .. Len(r.nbrs) : r.nbrs[x].Online}}
C29_FailureSkipsPeer ==
  [][\A h \in Hosts :
       /\ FailedAnswer(h, "ae_clock")
            => /\ db'[h] = db[h]
               /\ rep'[h].pc = "ae"
               /\ rep'[h].nbrs = rep[h].nbrs
               /\ OnlineFrom(rep'[h], rep'[h].i) = OnlineFrom(rep[h], rep[h].i + 1)
       /\ FailedAnswer(h, "gossip_wait")
            => /\ db'[h] = db[h]
               /\ rep'[h].pc = "gossip"
               /\ rep'[h].nbrs = rep[h].nbrs
               /\ rep'[h].sent <= MAX_PER_ROUND
                    => OnlineFrom(rep'[h], rep'[h].i)
                         = OnlineFrom(rep[h], rep[h].i + 1)]_vars
\* the first peer of the list is online and was asked, nothing of it was
\* merged (its GET /clock failed: every clock a peer answers with is ahead),
\* and the round has gone on to ask the second peer
C29_Witness ==
  /\ rep[OpenHost].pc = "ae_clock"
  /\ rep[OpenHost].i = 2
  /\ rep[OpenHost].nbrs[1].Online
  /\ ~HasRow(db[OpenHost], rep[OpenHost].nbrs[1].HostName)
  /\ http[OpenHost].st = "sent"

\* C30: in an exchange of anti-entropy with one peer the entries are in the
\* Store before the clock of the peer is merged: when update_values leaves its
\* loop over the pulled list and goes on to the merge of the clock, the log
\* holds a row for every key of the list.
C30_StoredBeforeMerge ==
  [][(/\ rep[OpenHost].pc = "ae_recent"
      /\ rep'[OpenHost].pc = "ae_merge") =>
       \A i \in DOMAIN http[OpenHost].data :
         HasKey(db'[OpenHost], http[OpenHost].data[i][2])]_vars

\* C31: in anti-entropy, when the local clock is not outdated with respect to
\* the clock a peer answers with (no host has a larger counter there, a host
\* missing from the local clock counting as 0), the exchange with that peer
\* sends no GET /recent_clipboard and leaves the log and the clock as they are.
C31_NotOutdatedSkips ==
  [][(/\ rep[OpenHost].pc = "ae_clock"
      /\ http[OpenHost].st = "done"
      /\ http[OpenHost].ok
      /\ rep'[OpenHost] # rep[OpenHost]
      /\ \A h \in DOMAIN http[OpenHost].data :
           http[OpenHost].data[h] <= CounterAt(load_clock(db[OpenHost]), h)) =>
       /\ rep'[OpenHost].pc = "ae"
       /\ http'[OpenHost] = NoReq
       /\ db'[OpenHost] = db[OpenHost]]_vars

\* C32: the Replicator never holds the mutex of the peer list while it is
\* suspended at an await (the queue, tailscale, an outbound request, a reply
\* of the Store): the guard is dropped before the task can be suspended.
C32_NoLockAcrossAwait ==
  \A h \in Hosts : Suspended(h) => ~rep[h].guard
\* the host has reloaded and cloned the list inside Node::gossip and now
\* waits for the answer of a peer to POST /gossip
C32_Witness ==
  /\ rep[OpenHost].pc = "gossip_wait"
  /\ http[OpenHost].st = "sent"
  /\ rep[OpenHost].nbrs # <<>>

\* C33: the receive loop of the Replicator survives a Transmit whose sender
\* does not wait for the reply: while it handles a Transmit of the command
\* surface, through the write, the gossip round and the reply, no step ends
\* the Replicator task.
C33_SurvivesFireAndForget ==
  [][\A h \in Hosts :
       (rep[h].msg.cmd = "Transmit" /\ rep[h].msg.from = "daemon")
         => rep'[h].pc # "dead"]_vars

\* host h's Replicator is suspended on POST /gossip to host g, and g's
\* handler has taken the request and waits for g's Replicator
GossipWaits(h, g) ==
  /\ rep[h].pc = "gossip_wait"
  /\ http[h].to = g
  /\ http[h].st = "wait"

\* C34: gossip between two responsive hosts cannot deadlock: the state in
\* which each of two online hosts has its Replicator suspended on a
\* POST /gossip that the other's handler holds, waiting for the other's
\* Replicator, is never reached (from it neither request can complete).
C34_NoGossipDeadlock ==
  \A h \in Hosts : \A g \in Hosts \ {h} :
    ~(up[h] /\ up[g] /\ GossipWaits(h, g) /\ GossipWaits(g, h))

\* host h's Replicator is suspended on GET /clock to host g during
\* anti-entropy, and g's handler has taken the request and waits for g's
\* Replicator
ClockWaits(h, g) ==
  /\ rep[h].pc = "ae_clock"
  /\ http[h].to = g
  /\ http[h].path = "/clock"
  /\ http[h].st = "wait"

\* C35: two hosts that run anti-entropy against each other at the same time
\* both finish: the state in which each of two online hosts has its
\* Replicator suspended on a GET /clock that the other's handler holds,
\* waiting for the other's Replicator, is never reached (from it neither
\* round can finish).
C35_NoAntiEntropyDeadlock ==
  \A h \in Hosts : \A g \in Hosts \ {h} :
    ~(up[h] /\ up[g] /\ ClockWaits(h, g) /\ ClockWaits(g, h))

\* C36: one local copy command adds exactly one row to the log of the host
\* it runs on: on a host whose log grows by its own copy commands only, the
\* rows of the log are as many as the copy commands the Store has accepted,
\* after the Replicator has handled the Transmit of each as well.
C36_OneRowPerCopy ==
  Cardinality(db[OpenHost].clipboard) = copies[OpenHost]

\* C37: anti-entropy reaches quiescence.  If from some time on all hosts stay
\* connected (and the copies of the run are made), then from some time on no
\* host's clock is outdated with respect to another host's clock (no host has
\* a larger counter in the other clock, a missing host counting as 0), so
\* every exchange of every later round pulls nothing.
C37_AeQuiescence ==
  <>[]AllUp =>
    <>[](\A h \in Hosts : \A g \in Hosts \ {h} :
           \A k \in DOMAIN load_clock(db[g]) :
             load_clock(db[g])[k] <= CounterAt(load_clock(db[h]), k))

====
